---- MODULE Spec2Model ----
(***************************************************************************)
(* A model of identify-ligands.py: the batch script that reads a workbook  *)
(* of metabolite identifiers, looks the identifiers up in EcoCyc (HTTP)    *)
(* and HMDB (a local XML dump), and files every spreadsheet row in one of  *)
(* the tables nodata, simple, match, multimatch, ambiguous.                *)
(*                                                                         *)
(* Texts that the script takes apart (the identifier cells) are sequences  *)
(* of one-character strings; every other text is a string.  A raised       *)
(* exception is a record [exc |-> <its class>]; "none" is no exception.    *)
(* Assigning a dict to a dataframe row (df.iloc[i] = d) is taken to align  *)
(* the dict's keys with the column labels.                                 *)
(***************************************************************************)
EXTENDS Integers, Sequences, FiniteSets, TLC

(***************************************************************************)
(* Bounds of the model.                                                    *)
(***************************************************************************)
\* sheets of the input workbook
MaxSheets == 2
\* data rows (rows after the subheader row) read in one run
MaxRows == 2
\* characters of an identifier cell
MaxLen == 3

(***************************************************************************)
(* The state.  Names are the script's where it has one.                    *)
(***************************************************************************)
VARIABLES
    tabs,           \* data.sheet_names: the names of the workbook's sheets
    hmdbroot,       \* the HMDB dump: metabolite name -> its XML element
    biocyc,         \* what the EcoCyc web service holds for each identifier
    pc,             \* "sheets", "rows", "done", "failed", or "unit"
    error,          \* the exception that ended the run, or "none"
    s,              \* sheets of tabs the sheet loop is through with
    i,              \* index of the row the row loop is at (0: the subheader)
    sheet,          \* the sheet being processed, 'Unnamed' columns dropped
    parsed,         \* history: name and number of data rows of every sheet parsed
    emids, hmids,   \* what getlists returned for row i
    nodata_df, simple_df, match_df, multimatch_df, ambiguous_df,
    fdict,          \* per output file, the (sheetname, dataframe) pairs
    files,          \* the workbooks written, in the order written
    lookups,        \* history: every database lookup made, with its row
    call, ret       \* a function called on its own, and what it returned

dfvars == <<nodata_df, simple_df, match_df, multimatch_df, ambiguous_df>>

runvars == <<tabs, hmdbroot, biocyc, pc, error, s, i, sheet, parsed, emids, hmids,
             nodata_df, simple_df, match_df, multimatch_df, ambiguous_df,
             fdict, files, lookups>>

vars == <<runvars, call, ret>>

(***************************************************************************)
(* Global variables of the script (lines 14-17).                           *)
(***************************************************************************)
ecocyc == 0
hmdb == 1

invalid_mids ==
    { <<"N", "A">>,
      <<"m", "u", "l", "t", "i", "p", "l", "e", " ", "c", "h", "a", "r", "g", "e">>,
      <<"n", "e", "g">>,
      <<"n", "a", "n">> }

skipsheets == {"Samplelist of essential", "TFs"}

\* Python's None, and numpy's nan (an empty cell): a value no text equals
None == "None"
nan == <<"nan">>

(***************************************************************************)
(* Text: str(), re.split and str.isdigit as getlists uses them.            *)
(***************************************************************************)
Digits == {"0", "1", "2", "3", "4", "5", "6", "7", "8", "9"}

\* \w of the regular expression, over the characters the model draws
WordChars == Digits \cup {"N", "A", "a", "n", "e", "g", "_"}

\* [\w:/\-] of the lookahead in line 101
LookClass == WordChars \cup {":", "/", "-"}

\* str(excelrow[i]), line 100: an empty cell is numpy's nan and prints as 'nan'
str(cell) == IF cell = nan THEN <<"n", "a", "n">> ELSE cell

\* the lookahead [\w:/\-]+\) at position q: a non-empty run of class
\* characters followed by a closing parenthesis
LookAhead(text, q) ==
    \E n \in 1..(Len(text) - q) :
        /\ \A k \in q..(q + n - 1) : text[k] \in LookClass
        /\ text[q + n] = ")"

RECURSIVE SplitFrom(_, _, _, _)
\* re.split from position p on: cur is the piece being read, acc the pieces cut
SplitFrom(text, p, cur, acc) ==
    IF p > Len(text) THEN Append(acc, cur)
    ELSE IF text[p] = ";" /\ p < Len(text) /\ text[p + 1] = " "
         THEN SplitFrom(text, p + 2, <<>>, Append(acc, cur))
    ELSE IF text[p] = "/" /\ ~LookAhead(text, p + 1)
         THEN SplitFrom(text, p + 1, <<>>, Append(acc, cur))
    ELSE SplitFrom(text, p + 1, Append(cur, text[p]), acc)

\* split(r"; |/(?![\w:/\-]+\))", text), line 101
split(text) == SplitFrom(text, 1, <<>>, <<>>)

\* j.isdigit()
isdigit(j) == Len(j) > 0 /\ \A k \in 1..Len(j) : j[k] \in Digits

\* the condition of the comprehension of line 103
ValidMid(j) == j \notin invalid_mids /\ ~isdigit(j)

(***************************************************************************)
(* getlists (lines 94-105).  The comprehension of line 103 iterates over   *)
(* ids[i][j]: j is bound by the comprehension only, so the iterable, which *)
(* is evaluated first and in the function's scope, names a variable that   *)
(* exists neither there nor in the module, and raises NameError.           *)
(***************************************************************************)
Raise(e) == [exc |-> e]

\* no result yet
Pending == [exc |-> "pending"]

\* line 96
HasDbKeys(excelrow) == "HMDB" \in DOMAIN excelrow /\ "EcoCyc" \in DOMAIN excelrow

\* line 103, for the pieces of one cell
Comprehension(pieces) == Raise("NameError")

\* lines 97-105 for what the comprehension yields for either column
GotLists(e, h) ==
    IF e.exc # "none" THEN e
    ELSE IF h.exc # "none" THEN h
    ELSE [exc |-> "none", EcoCyc |-> e.ids, HMDB |-> h.ids]

getlists(excelrow) ==
    IF ~HasDbKeys(excelrow) THEN Raise("AssertionError")
    ELSE GotLists(Comprehension(split(str(excelrow["EcoCyc"]))),
                  Comprehension(split(str(excelrow["HMDB"]))))

(***************************************************************************)
(* The two databases.                                                      *)
(***************************************************************************)
\* metabolite identifiers, and the InChIKeys they resolve to
Mids == {"m1", "m2"}
Keys == {"K1", "K2"}

InChIOf == [k \in Keys |-> IF k = "K1" THEN "I1" ELSE "I2"]
ESmilesOf == [k \in Keys |-> IF k = "K1" THEN "eS1" ELSE "eS2"]
HSmilesOf == [k \in Keys |-> IF k = "K1" THEN "hS1" ELSE "hS2"]

\* what the web service holds for the two identifiers: different keys, the
\* first without SMILES, the keys the other way round, the same key twice
Complete(k) == [inchi |-> InChIOf[k], inchikey |-> k, smiles |-> ESmilesOf[k]]

NoSmiles == [inchi |-> "I1", inchikey |-> "K1", smiles |-> None]

EcoCycContents ==
    { [m \in Mids |-> Complete(IF m = "m1" THEN "K1" ELSE "K2")],
      [m \in Mids |-> IF m = "m1" THEN NoSmiles ELSE Complete("K2")],
      [m \in Mids |-> Complete(IF m = "m1" THEN "K2" ELSE "K1")],
      [m \in Mids |-> Complete("K1")] }

\* an HMDB <metabolite> element: its children 16, 17 and 18
HmdbElement(k) ==
    [smiles |-> HSmilesOf[k], inchi |-> <<"InChI=", InChIOf[k]>>, inchikey |-> k]

\* the dumps the model loads: both names present with different keys, one
\* name present, no name present
HmdbDumps ==
    { [m \in Mids |-> HmdbElement(IF m = "m1" THEN "K1" ELSE "K2")],
      [m \in {"m1"} |-> HmdbElement("K1")],
      [m \in {} |-> HmdbElement("K1")] }

\* hmdb_lookup, lines 28-36
hmdb_lookup(mid) ==
    IF mid \in DOMAIN hmdbroot
    THEN LET e == hmdbroot[mid]
         IN  [InChI |-> e.inchi[2], InChIKey |-> e.inchikey,
              SMILES |-> e.smiles, MetaboliteID |-> mid]
    ELSE [InChI |-> None, InChIKey |-> None, SMILES |-> None, MetaboliteID |-> mid]

\* requests.get, line 43: the answer to the request for mid
get(mid, ok) == [status_code |-> IF ok THEN 200 ELSE 500, text |-> biocyc[mid]]

\* a status check that is left out
raise_for_status_never(resp) == FALSE

\* resp.raise_for_status(), line 44: raises on a 4xx or 5xx status
raise_for_status(resp) == resp.status_code >= 400

\* a re.search result that was not turned into text by .group()
MatchObject == "<re.Match>"

\* lines 47-55, past the status check
ecocyc_parse(mid, text) ==
    IF None \notin {text.inchi, text.inchikey, text.smiles}
    THEN [InChI |-> text.inchi, InChIKey |-> text.inchikey,
          SMILES |-> text.smiles, MetaboliteID |-> mid]
    ELSE LET found(x) == IF x = None THEN None ELSE MatchObject
         IN  [InChI |-> found(text.inchi), InChIKey |-> found(text.inchikey),
              SMILES |-> found(text.smiles), MetaboliteID |-> mid]

\* ecocyc_lookup, lines 39-55, given the answer to its one request
ecocyc_lookup(mid, resp) ==
    IF raise_for_status(resp) THEN Raise("HTTPError")
    ELSE [exc |-> "none", rec |-> ecocyc_parse(mid, resp.text)]

(***************************************************************************)
(* Dataframes.  A lookup dataframe is [columns, index, rows]: index holds  *)
(* the row labels, which dropna keeps.  An output table is the sequence of *)
(* its rows, each a function from column label to value.                   *)
(***************************************************************************)
InfoColumns == {"InChI", "MetaboliteID", "InChIKey", "SMILES"}

\* df.dropna(), line 116
dropna(df) ==
    LET keep == { k \in 1..Len(df.rows) : \A c \in df.columns : df.rows[k][c] # None }
        F[k \in 0..Len(df.rows)] ==
            IF k = 0 THEN [index |-> <<>>, rows |-> <<>>]
            ELSE IF k \in keep
                 THEN [index |-> Append(F[k - 1].index, df.index[k]),
                       rows |-> Append(F[k - 1].rows, df.rows[k])]
                 ELSE F[k - 1]
    IN  [columns |-> df.columns, index |-> F[Len(df.rows)].index,
         rows |-> F[Len(df.rows)].rows]

\* an assertion that checks the tag from below only
ValidDbFromBelow(db) == db >= ecocyc

\* assert of line 109
ValidDb(db) == db = hmdb \/ db = ecocyc

\* one entry of the history of lookups
Looked(db, mid, code) == [db |-> db, mid |-> mid, status_code |-> code]

RECURSIVE RetrieveFrom(_, _, _, _, _, _)
\* the loop of lines 113-114 from mids[k] on; failAt is the request (0: none)
\* the web service answers with a failing status
RetrieveFrom(mids, db, k, failAt, rows, looked) ==
    IF k > Len(mids) THEN [exc |-> "none", rows |-> rows, looked |-> looked]
    ELSE IF db = ecocyc
    THEN IF ecocyc_lookup(mids[k], get(mids[k], k # failAt)).exc # "none"
         THEN [exc |-> ecocyc_lookup(mids[k], get(mids[k], k # failAt)).exc,
               rows |-> rows,
               looked |-> Append(looked, Looked(db, mids[k],
                                                get(mids[k], k # failAt).status_code))]
         ELSE RetrieveFrom(mids, db, k + 1, failAt,
                           Append(rows, ecocyc_lookup(mids[k], get(mids[k], k # failAt)).rec),
                           Append(looked, Looked(db, mids[k],
                                                 get(mids[k], k # failAt).status_code)))
    ELSE RetrieveFrom(mids, db, k + 1, failAt, Append(rows, hmdb_lookup(mids[k])),
                      Append(looked, Looked(db, mids[k], 0)))

\* line 116, or the exception of a lookup passed on
Retrieved(mids, r) ==
    IF r.exc # "none" THEN [exc |-> r.exc, looked |-> r.looked]
    ELSE [exc |-> "none", looked |-> r.looked,
          df |-> dropna([columns |-> InfoColumns,
                         index |-> [k \in 1..Len(mids) |-> k - 1],
                         rows |-> r.rows])]

\* retrieve, lines 107-116
retrieve(mids, db, failAt) ==
    IF ~ValidDb(db) THEN [exc |-> "AssertionError", looked |-> <<>>]
    ELSE Retrieved(mids, RetrieveFrom(mids, db, 1, failAt, <<>>, <<>>))

\* the values of column c, top to bottom
Column(df, c) == [k \in 1..Len(df.rows) |-> df.rows[k][c]]

\* the rows of df whose InChIKey is key: df.loc[df['InChIKey']==key]
KeyRows(df, key) == { k \in 1..Len(df.rows) : df.rows[k]["InChIKey"] = key }

MatchColumns ==
    {"InChI", "InChIKey", "hSMILES", "eSMILES", "eMetaboliteID", "hMetaboliteID"}

\* lines 125-134 for one key; [0] of lines 131-132 looks the label 0 up
MatchRow(einfo, hinfo, key) ==
    LET h == hinfo.rows[CHOOSE k \in KeyRows(hinfo, key) :
                            \A m \in KeyRows(hinfo, key) : k <= m]
        e0 == { k \in KeyRows(einfo, key) : einfo.index[k] = 0 }
    IN  IF e0 = {} THEN Raise("KeyError")
        ELSE LET e == einfo.rows[CHOOSE k \in e0 : TRUE]
             IN  [exc |-> "none",
                  rec |-> [InChI |-> h["InChI"], InChIKey |-> h["InChIKey"],
                           hMetaboliteID |-> h["MetaboliteID"], hSMILES |-> h["SMILES"],
                           eMetaboliteID |-> e["MetaboliteID"], eSMILES |-> e["SMILES"]]]

\* the rows of one key and of the keys after it, or the exception of either
ConsMatch(r, rest) ==
    IF r.exc # "none" THEN r
    ELSE IF rest.exc # "none" THEN rest
    ELSE [exc |-> "none", rows |-> <<r.rec>> \o rest.rows]

RECURSIVE MatchRows(_, _, _)
\* the loop of lines 124-134 over the keys left.  list(set) fixes no order;
\* the order shows in no result, since label 0 carries one key only and so
\* the loop raises whenever it is given two
MatchRows(einfo, hinfo, keys) ==
    IF keys = {} THEN [exc |-> "none", rows |-> <<>>]
    ELSE ConsMatch(MatchRow(einfo, hinfo, CHOOSE k \in keys : TRUE),
                   MatchRows(einfo, hinfo, keys \ {CHOOSE k \in keys : TRUE}))

\* line 121
matchkeys(einfo, hinfo) ==
    { einfo.rows[k]["InChIKey"] : k \in 1..Len(einfo.rows) }
    \cap { hinfo.rows[k]["InChIKey"] : k \in 1..Len(hinfo.rows) }

\* lines 123 and 135 for the rows the loop built
MatchFrame(r) ==
    IF r.exc # "none" THEN r
    ELSE [exc |-> "none", found |-> TRUE,
          df |-> [columns |-> MatchColumns,
                  index |-> [k \in 1..Len(r.rows) |-> k - 1], rows |-> r.rows]]

\* getmatches, lines 118-135; found is FALSE where it returns None
getmatches(einfo, hinfo) ==
    IF matchkeys(einfo, hinfo) = {} THEN [exc |-> "none", found |-> FALSE]
    ELSE MatchFrame(MatchRows(einfo, hinfo, matchkeys(einfo, hinfo)))

RECURSIVE joinvalues(_)
\* joinvalues, lines 138-140: the texts of x with '|' between them
joinvalues(x) ==
    IF Len(x) = 0 THEN <<>>
    ELSE IF Len(x) = 1 THEN <<x[1]>>
    ELSE <<x[1], "|">> \o joinvalues(Tail(x))

DbColumns == {"EcoCyc", "HMDB"}

\* process_ogrow with a drop that passes over labels that are not there
process_ogrow_lenient(ogrow) ==
    [exc |-> "none", ogrow |-> [c \in (DOMAIN ogrow) \ DbColumns |-> ogrow[c]],
     d |-> [c \in (DOMAIN ogrow) \ DbColumns |-> ogrow[c]]]

\* process_ogrow, lines 142-145: drop(..., inplace=True) changes the row it is
\* given, and raises when a label to drop is not in it
process_ogrow(ogrow) ==
    IF ~(DbColumns \subseteq DOMAIN ogrow) THEN Raise("KeyError")
    ELSE LET left == [c \in (DOMAIN ogrow) \ DbColumns |-> ogrow[c]]
         IN  [exc |-> "none", ogrow |-> left, d |-> left]

\* d.update(x): x's entries over d's
update(d, x) == [c \in (DOMAIN d) \cup (DOMAIN x) |-> IF c \in DOMAIN x THEN x[c] ELSE d[c]]

\* prefix+i of line 162
Prefixed ==
    [p \in {"e", "h"} |->
        [c \in InfoColumns |->
            IF p = "e"
            THEN CASE c = "InChI" -> "eInChI" [] c = "MetaboliteID" -> "eMetaboliteID"
                   [] c = "InChIKey" -> "eInChIKey" [] OTHER -> "eSMILES"
            ELSE CASE c = "InChI" -> "hInChI" [] c = "MetaboliteID" -> "hMetaboliteID"
                   [] c = "InChIKey" -> "hInChIKey" [] OTHER -> "hSMILES"]]

\* line 162: the dataframe with its columns renamed
Renamed(ambig_df, prefix) ==
    [columns |-> { Prefixed[prefix][c] : c \in ambig_df.columns },
     index |-> ambig_df.index,
     rows |-> [k \in 1..Len(ambig_df.rows) |->
                [n \in { Prefixed[prefix][c] : c \in ambig_df.columns } |->
                    ambig_df.rows[k][CHOOSE c \in ambig_df.columns :
                                        Prefixed[prefix][c] = n]]]]

\* line 164
JoinedColumns(df) ==
    [exc |-> "none", ambig_df |-> df,
     d |-> [n \in df.columns |-> joinvalues(Column(df, n))]]

\* getdict_ambiguousinfo, lines 157-164; ambig_df is the dataframe as the call
\* leaves it
getdict_ambiguousinfo(ambig_df, db) ==
    IF ~ValidDb(db) THEN [exc |-> "AssertionError", ambig_df |-> ambig_df]
    ELSE JoinedColumns(Renamed(ambig_df, IF db = ecocyc THEN "e" ELSE "h"))

\* lines 170-176 for the outcomes of the calls they make
AmbiguousRow(p, g1, g2) ==
    IF p.exc # "none" THEN p
    ELSE IF g1.exc # "none" THEN Raise(g1.exc)
    ELSE IF g2.exc # "none" THEN Raise(g2.exc)
    ELSE [exc |-> "none", ogrow |-> p.ogrow, d |-> update(update(p.d, g1.d), g2.d)]

\* no second set: minfo2=None, db2=None
NoInfo == [exc |-> "none", d |-> <<>>]

\* build_ambiguousrow, lines 166-176, with both sets (line 265)
build_ambiguousrow(ogrow, minfo1, db1, minfo2, db2) ==
    AmbiguousRow(process_ogrow(ogrow), getdict_ambiguousinfo(minfo1, db1),
                 getdict_ambiguousinfo(minfo2, db2))

\* build_ambiguousrow, lines 166-176, with one set (line 245)
build_ambiguousrow1(ogrow, minfo1, db1) ==
    AmbiguousRow(process_ogrow(ogrow), getdict_ambiguousinfo(minfo1, db1), NoInfo)

\* build_matchrow, lines 178-185
build_matchrow(ogrow, match) ==
    LET p == process_ogrow(ogrow)
    IN  IF p.exc # "none" THEN p
        ELSE [exc |-> "none", ogrow |-> p.ogrow,
              d |-> update(p.d, [c \in match.columns |-> joinvalues(Column(match, c))])]

\* DataFrame.append(rowdict, ignore_index=True): one more row, the columns
\* of either side that the other lacks filled with nan
append(df, d) ==
    LET cols == (DOMAIN df[1]) \cup (DOMAIN d)
        fill(r) == [c \in cols |-> IF c \in DOMAIN r THEN r[c] ELSE nan]
    IN  [k \in 1..Len(df) |-> fill(df[k])] \o <<fill(d)>>

\* a new column, or a column overwritten, with one value: df[c] = v
assign(d, cols, v) == [c \in (DOMAIN d) \cup cols |-> IF c \in cols THEN v ELSE d[c]]

\* init_file_dfs, lines 58-92: five tables holding the subheader row
init_file_dfs(subheaders) ==
    LET nodata == [c \in (DOMAIN subheaders) \ DbColumns |-> subheaders[c]]
        match == assign(assign(assign(nodata, {"InChI", "InChIKey"}, nan),
                               {"eMetaboliteID", "eSMILES"}, "EcoCyc"),
                        {"hMetaboliteID", "hSMILES"}, "HMDB")
        simple == assign(nodata, {"InChI", "InChIKey", "SMILES", "MetaboliteID",
                                  "Database"}, nan)
        ambiguous == assign(assign(nodata,
                                   {"eMetaboliteID", "eInChI", "eInChIKey", "eSMILES"},
                                   "EcoCyc"),
                            {"hMetaboliteID", "hInChI", "hInChIKey", "hSMILES"}, "HMDB")
    IN  [nodata |-> <<nodata>>, simple |-> <<simple>>, match |-> <<match>>,
         multimatch |-> <<match>>, ambiguous |-> <<ambiguous>>]

\* build_simplerow, lines 147-155
build_simplerow(ogrow, minfo, db) ==
    LET p == process_ogrow(ogrow)
    IN  IF p.exc # "none" THEN p
        ELSE IF Len(minfo.rows) = 0 THEN Raise("IndexError")
        ELSE [exc |-> "none", ogrow |-> p.ogrow,
              d |-> assign(update(p.d, minfo.rows[1]), {"Database"}, db)]

(***************************************************************************)
(* The body of the row loop, lines 226-266, for the lists getlists         *)
(* returned.  The result holds the five tables as the body leaves them,    *)
(* the lookups it made, and the exception that ended it, if any.           *)
(***************************************************************************)
\* the assignment of line 236 unpacks into two names.  The right-hand side
\* is the tuple (hmids, <hmdb or emids>, ecocyc): the conditional expression
\* binds tighter than the commas
Line236(e, h) ==
    LET rhs == <<h, IF Len(e) = 0 THEN <<hmdb>> ELSE e, ecocyc>>
    IN  IF Len(rhs) # 2 THEN Raise("ValueError")
        ELSE [exc |-> "none", ids |-> rhs[1], database |-> rhs[2]]

Tables ==
    [exc |-> "none", nodata |-> nodata_df, simple |-> simple_df, match |-> match_df,
     multimatch |-> multimatch_df, ambiguous |-> ambiguous_df, looked |-> <<>>]

\* lines 227-231
NoDataBranch(row) ==
    LET p == process_ogrow(row)
    IN  IF p.exc # "none" THEN [Tables EXCEPT !.exc = p.exc]
        ELSE [Tables EXCEPT !.nodata = append(nodata_df, p.d)]

\* a table with one more row, or the exception of the call that was to build it
Appended(tables, name, built, looked) ==
    IF built.exc # "none" THEN [tables EXCEPT !.exc = built.exc, !.looked = looked]
    ELSE [tables EXCEPT ![name] = append(tables[name], built.d), !.looked = looked]

\* lines 238-246
SingleFiled(row, database, info) ==
    IF info.exc # "none"
    THEN [Tables EXCEPT !.exc = info.exc, !.looked = info.looked]
    ELSE IF Len(info.df.rows) = 1
    THEN Appended(Tables, "simple", build_simplerow(row, info.df, database),
                  info.looked)
    ELSE Appended(Tables, "ambiguous", build_ambiguousrow1(row, info.df, database),
                  info.looked)

\* lines 234-246
SingleBranch(row, e, h, failAt) ==
    IF Line236(e, h).exc # "none" THEN [Tables EXCEPT !.exc = Line236(e, h).exc]
    ELSE SingleFiled(row, Line236(e, h).database,
                     retrieve(Line236(e, h).ids, Line236(e, h).database, failAt))

\* lines 264-266: row is the row as the lines before left it
BothAmbiguous(tables, row, ecocycinfo, hmdbinfo) ==
    IF tables.exc # "none" THEN tables
    ELSE Appended(tables, "ambiguous",
                  build_ambiguousrow(row, ecocycinfo.df, ecocyc, hmdbinfo.df, hmdb),
                  tables.looked)

\* lines 257-263
BothMatched(tables, matches, built) ==
    Appended(tables, IF Len(matches.df.rows) = 1 THEN "match" ELSE "multimatch",
             built, tables.looked)

\* lines 256-266
BothFiled(tables, row, ecocycinfo, hmdbinfo, matches) ==
    IF matches.exc # "none" THEN [tables EXCEPT !.exc = matches.exc]
    ELSE IF matches.found
    THEN BothAmbiguous(BothMatched(tables, matches, build_matchrow(row, matches.df)),
                       build_matchrow(row, matches.df).ogrow, ecocycinfo, hmdbinfo)
    ELSE BothAmbiguous(tables, row, ecocycinfo, hmdbinfo)

\* lines 252-266
BothLooked(row, ecocycinfo, hmdbinfo) ==
    BothFiled([Tables EXCEPT !.looked = ecocycinfo.looked \o hmdbinfo.looked],
              row, ecocycinfo, hmdbinfo, getmatches(ecocycinfo.df, hmdbinfo.df))

\* lines 251-266
BothStarted(row, h, ecocycinfo) ==
    IF ecocycinfo.exc # "none"
    THEN [Tables EXCEPT !.exc = ecocycinfo.exc, !.looked = ecocycinfo.looked]
    ELSE BothLooked(row, ecocycinfo, retrieve(h, hmdb, 0))

\* lines 249-266
BothBranch(row, e, h, failAt) == BothStarted(row, h, retrieve(e, ecocyc, failAt))

RowBody(row, e, h, failAt) ==
    IF Len(e) = 0 /\ Len(h) = 0 THEN NoDataBranch(row)
    ELSE IF Len(e) = 0 \/ Len(h) = 0 THEN SingleBranch(row, e, h, failAt)
    ELSE BothBranch(row, e, h, failAt)

(***************************************************************************)
(* The run, lines 187-288.                                                 *)
(***************************************************************************)
SheetNames == {"TFs", "S1", "S2"}

\* the workbooks: one to MaxSheets sheets, no name twice; S1 and S2 are any
\* two names of sheets that are not skipped, so S2 comes after S1 only
Workbooks ==
    { t \in UNION { [1..n -> SheetNames] : n \in 1..MaxSheets } :
        /\ \A a, b \in 1..Len(t) : a # b => t[a] # t[b]
        /\ \A a \in 1..Len(t) : t[a] = "S2" => \E b \in 1..(a - 1) : t[b] = "S1" }

\* the column headers a sheet may come with
ColumnSets ==
    { {"Name", "EcoCyc", "HMDB"}, {"Name", "EcoCyc", "HMDB", "Unnamed: 3"},
      {"Name", "EcoCyc", "Unnamed: 3"}, {"Name", "HMDB"} }

\* i[:7] of line 214
Prefix7 ==
    [c \in {"Name", "EcoCyc", "HMDB", "Unnamed: 3"} |->
        IF c = "Unnamed: 3" THEN "Unnamed" ELSE c]

\* the Name cell of a sheet's rows, the subheader row first
RowNames == <<"sub", "r1", "r2", "r3", "r4", "r5", "r6">>

\* row k (0: the subheader row) of a parsed sheet with these columns
RawRow(columns, k) ==
    [c \in columns |->
        CASE c = "Name" -> RowNames[k + 1]
          [] c = "EcoCyc" -> <<"A">>
          [] c = "HMDB" -> <<"N", "A">>
          [] OTHER -> nan]

\* the lists getlists may be taken to return
IdLists == {<<>>, <<"m1">>, <<"m2">>, <<"m1", "m2">>}

FileNames == <<"nodata", "simple", "match", "multimatch", "ambiguous">>

RECURSIVE RowsRead(_)
RowsRead(p) == IF p = <<>> THEN 0 ELSE Head(p).ndata + RowsRead(Tail(p))

\* a sheet loop that skips nothing
SkippedNone(sheetname) == FALSE

\* line 207
Skipped(sheetname) == sheetname \in skipsheets

\* an assertion with "or" for "and"
HasDbColumnsEither(columns) == "EcoCyc" \in columns \/ "HMDB" \in columns

\* the assertion of line 216
HasDbColumns(columns) == "EcoCyc" \in columns /\ "HMDB" \in columns

NoSheet == [columns |-> {}, rows |-> <<>>]

Init ==
    /\ tabs \in Workbooks
    /\ hmdbroot \in HmdbDumps
    /\ biocyc \in EcoCycContents
    /\ pc = "sheets"
    /\ error = "none"
    /\ s = 0
    /\ i = 0
    /\ sheet = NoSheet
    /\ parsed = <<>>
    /\ emids = <<>>
    /\ hmids = <<>>
    /\ nodata_df = <<>>
    /\ simple_df = <<>>
    /\ match_df = <<>>
    /\ multimatch_df = <<>>
    /\ ambiguous_df = <<>>
    /\ fdict = [n \in {FileNames[k] : k \in 1..Len(FileNames)} |-> <<>>]
    /\ files = <<>>
    /\ lookups = <<>>
    /\ call = [fn |-> "main"]
    /\ ret = Pending

\* lines 207-209
SkipSheet ==
    /\ pc = "sheets"
    /\ s < Len(tabs)
    /\ Skipped(tabs[s + 1])
    /\ s' = s + 1
    /\ UNCHANGED <<tabs, hmdbroot, biocyc, pc, error, i, sheet, parsed, emids, hmids,
                   dfvars, fdict, files, lookups, call, ret>>

\* the five tables become those of t
SetTables(t) ==
    /\ nodata_df' = t.nodata
    /\ simple_df' = t.simple
    /\ match_df' = t.match
    /\ multimatch_df' = t.multimatch
    /\ ambiguous_df' = t.ambiguous

\* lines 210-218: the sheet is read when the loop comes to it
ParseSheet ==
    /\ pc = "sheets"
    /\ s < Len(tabs)
    /\ ~Skipped(tabs[s + 1])
    /\ \E columns \in ColumnSets, n \in 0..(MaxRows - RowsRead(parsed) + 1) :
        LET cols == { c \in columns : Prefix7[c] # "Unnamed" }
            sh == [columns |-> cols,
                   rows |-> [k \in 1..n |-> [c \in cols |-> RawRow(columns, k - 1)[c]]]]
        IN  /\ sheet' = sh
            /\ parsed' = Append(parsed, [name |-> tabs[s + 1], columns |-> cols,
                                         ndata |-> IF n = 0 THEN 0 ELSE n - 1])
            /\ IF ~HasDbColumns(cols)
               THEN /\ pc' = "failed"
                    /\ error' = "AssertionError"
                    /\ UNCHANGED dfvars
               ELSE IF n = 0
               THEN /\ pc' = "failed"
                    /\ error' = "IndexError"
                    /\ UNCHANGED dfvars
               ELSE /\ pc' = "rows"
                    /\ SetTables(init_file_dfs(sh.rows[1]))
                    /\ UNCHANGED error
    /\ i' = 0
    /\ UNCHANGED <<tabs, hmdbroot, biocyc, s, emids, hmids, fdict, files, lookups,
                   call, ret>>

\* the state after the body of the row loop ended as b says
RowDone(b) ==
    /\ SetTables(b)
    /\ lookups' = lookups \o
           [k \in 1..Len(b.looked) |->
               [sheet |-> s + 1, row |-> i + 1, db |-> b.looked[k].db,
                mid |-> b.looked[k].mid, status_code |-> b.looked[k].status_code]]
    /\ IF b.exc # "none"
       THEN pc' = "failed" /\ error' = b.exc
       ELSE UNCHANGED <<pc, error>>

\* lines 221-266 for the next row, given what getlists does for it
ProcessRowWith(res, failAt) ==
    /\ pc = "rows"
    /\ i + 1 < Len(sheet.rows)
    /\ i' = i + 1
    /\ IF res.exc # "none"
       THEN /\ pc' = "failed"
            /\ error' = res.exc
            /\ UNCHANGED <<emids, hmids, dfvars, lookups>>
       ELSE /\ emids' = res.EcoCyc
            /\ hmids' = res.HMDB
            /\ RowDone(RowBody(sheet.rows[i + 2], res.EcoCyc, res.HMDB, failAt))
    /\ UNCHANGED <<tabs, hmdbroot, biocyc, s, sheet, parsed, fdict, files, call, ret>>

\* the row loop with getlists as it is
ProcessRow ==
    /\ pc = "rows"
    /\ i + 1 < Len(sheet.rows)
    /\ ProcessRowWith(getlists(sheet.rows[i + 2]), 0)

\* the row loop against any getlists: one that raises as the script's does,
\* or one that returns any two lists; any one request may fail
ProcessRowAny ==
    \/ ProcessRowWith(Raise("NameError"), 0)
    \/ \E e \in IdLists, h \in IdLists :
         \E failAt \in 0..Len(e) :
            ProcessRowWith([exc |-> "none", EcoCyc |-> e, HMDB |-> h], failAt)

\* lines 267-276
EndSheet ==
    /\ pc = "rows"
    /\ i + 1 >= Len(sheet.rows)
    /\ fdict' = [fdict EXCEPT
                    !["nodata"] = Append(@, <<tabs[s + 1], nodata_df>>),
                    !["simple"] = Append(@, <<tabs[s + 1], simple_df>>),
                    !["match"] = Append(@, <<tabs[s + 1], match_df>>),
                    !["multimatch"] = Append(@, <<tabs[s + 1], multimatch_df>>),
                    !["ambiguous"] = Append(@, <<tabs[s + 1], ambiguous_df>>)]
    /\ s' = s + 1
    /\ pc' = "sheets"
    /\ UNCHANGED <<tabs, hmdbroot, biocyc, error, i, sheet, parsed, emids, hmids,
                   dfvars, files, lookups, call, ret>>

\* lines 277-288: the sheet loop is over and the five files are written, in
\* fdict's order; every (sheetname, df) of a file's list is written as a
\* sheet, in the list's order.  The output directory is taken to be writable
WriteFiles ==
    /\ pc = "sheets"
    /\ s = Len(tabs)
    /\ files' = [k \in 1..Len(FileNames) |->
                    [name |-> FileNames[k], sheets |-> fdict[FileNames[k]]]]
    /\ pc' = "done"
    /\ UNCHANGED <<tabs, hmdbroot, biocyc, error, s, i, sheet, parsed, emids, hmids,
                   dfvars, fdict, lookups, call, ret>>

Next ==
    \/ SkipSheet
    \/ ParseSheet
    \/ ProcessRow
    \/ EndSheet
    \/ WriteFiles

\* the script
Spec == Init /\ [][Next]_vars

NextBody ==
    \/ SkipSheet
    \/ ParseSheet
    \/ ProcessRowAny
    \/ EndSheet
    \/ WriteFiles

\* the script around getlists: lines 187-288 against every outcome of the
\* call of line 224
SpecBody == Init /\ [][NextBody]_vars

(***************************************************************************)
(* getlists called on its own.                                             *)
(***************************************************************************)
\* the characters identifier cells are drawn from
Alphabet == {"N", "A", "7", ";", " ", "/", ")"}

Texts == UNION { [1..n -> Alphabet] : n \in 0..MaxLen }

\* a cell of the sheet: a text, or empty
CellValues == Texts \cup {nan}

\* no run: the state of the script is not looked at
NoRun ==
    /\ tabs = <<>>
    /\ pc = "unit"
    /\ error = "none"
    /\ s = 0
    /\ i = 0
    /\ sheet = NoSheet
    /\ parsed = <<>>
    /\ emids = <<>>
    /\ hmids = <<>>
    /\ nodata_df = <<>>
    /\ simple_df = <<>>
    /\ match_df = <<>>
    /\ multimatch_df = <<>>
    /\ ambiguous_df = <<>>
    /\ fdict = [n \in {FileNames[k] : k \in 1..Len(FileNames)} |-> <<>>]
    /\ files = <<>>
    /\ lookups = <<>>

InitGetlists ==
    /\ NoRun
    /\ hmdbroot = <<>>
    /\ biocyc = <<>>
    \* rows with both identifier columns, and rows lacking one
    /\ \/ \E e \in CellValues, h \in CellValues :
            call = [fn |-> "getlists",
                    excelrow |-> [Name |-> "r1", EcoCyc |-> e, HMDB |-> h]]
       \/ \E e \in {<<"A">>, nan} :
            call \in { [fn |-> "getlists", excelrow |-> [Name |-> "r1", EcoCyc |-> e]],
                       [fn |-> "getlists", excelrow |-> [Name |-> "r1", HMDB |-> e]] }
    /\ ret = Pending

CallGetlists ==
    /\ ret = Pending
    /\ call.fn = "getlists"
    /\ ret' = getlists(call.excelrow)
    /\ UNCHANGED <<runvars, call>>

NextGetlists == CallGetlists

SpecGetlists == InitGetlists /\ [][NextGetlists]_vars

(***************************************************************************)
(* retrieve and getdict_ambiguousinfo called on their own, with any tag.   *)
(***************************************************************************)
\* the database tags a caller may pass: the two of lines 14-15, and others
DbTags == -1..2

InitTags ==
    /\ NoRun
    /\ hmdbroot \in HmdbDumps
    /\ biocyc \in EcoCycContents
    /\ \/ \E mids \in IdLists, db \in DbTags :
            \E failAt \in 0..Len(mids) :
                call = [fn |-> "retrieve", mids |-> mids, db |-> db, failAt |-> failAt]
       \/ \E mids \in IdLists, db \in DbTags :
            call = [fn |-> "getdict_ambiguousinfo",
                    ambig_df |-> retrieve(mids, hmdb, 0).df, db |-> db]
    /\ ret = Pending

CallRetrieve ==
    /\ ret = Pending
    /\ call.fn = "retrieve"
    /\ ret' = retrieve(call.mids, call.db, call.failAt)
    /\ UNCHANGED <<runvars, call>>

CallGetdict ==
    /\ ret = Pending
    /\ call.fn = "getdict_ambiguousinfo"
    /\ ret' = getdict_ambiguousinfo(call.ambig_df, call.db)
    /\ UNCHANGED <<runvars, call>>

NextTags == CallRetrieve \/ CallGetdict

SpecTags == InitTags /\ [][NextTags]_vars

(***************************************************************************)
(* The claims.                                                             *)
(***************************************************************************)
\* the rows of table df, past the subheader row, that carry this Name
RowsNamed(df, name) == { k \in 2..Len(df) : df[k]["Name"] = name }

\* the names of the sheets written to a file, in the order written
SheetsOf(f) == [k \in 1..Len(f.sheets) |-> f.sheets[k][1]]

\* the sheets of the workbook that are not in skipsheets, in its order
NotSkipped == SelectSeq(tabs, LAMBDA n : n \notin skipsheets)

\* the row loop has entered row i and getlists returned its two lists
ListsOfRow == pc \in {"rows", "failed"} /\ i >= 1 /\ error # "NameError"

\* the lookups made for the row the loop is at
LookupsOfRow == SelectSeq(lookups, LAMBDA l : l.sheet = s + 1 /\ l.row = i)

IsPrefix(a, b) == Len(a) <= Len(b) /\ \A k \in 1..Len(a) : a[k] = b[k]

\* how often the written tables hold the row of this name of the p-th sheet parsed
TimesFiled(p, name) ==
    Cardinality({ fk \in (1..Len(files)) \X (2..(MaxRows + 2)) :
                    /\ fk[2] <= Len(files[fk[1]].sheets[p][2])
                    /\ files[fk[1]].sheets[p][2][fk[2]]["Name"] = name })

C2_SheetPerProcessedSheet ==
    pc = "done" =>
        /\ Len(files) = Len(FileNames)
        /\ { files[k].name : k \in 1..Len(files) } = { FileNames[k] : k \in 1..Len(FileNames) }
        /\ \A k \in 1..Len(files) : SheetsOf(files[k]) = NotSkipped

\* C2 as stated: each of the five workbooks has one sheet for each sheet of
\* the input workbook, under the same name and in the input order.
C2_SheetPerInputSheet ==
    pc = "done" =>
        /\ Len(files) = Len(FileNames)
        /\ { files[k].name : k \in 1..Len(files) } = { FileNames[k] : k \in 1..Len(FileNames) }
        /\ \A k \in 1..Len(files) : SheetsOf(files[k]) = tabs

\* a completed run over a workbook with a skipped sheet before a processed one
C2_Witness ==
    /\ pc = "done"
    /\ Len(tabs) >= 2
    /\ tabs[1] \in skipsheets
    /\ tabs[2] \notin skipsheets
    /\ Len(files) = 5

\* C3: when a sheet that is not skipped lacks the EcoCyc or the HMDB column,
\* the run ends at that sheet with an AssertionError: no row of the sheet is
\* processed, no lookup is made for it, no later sheet is read and no
\* workbook is written.
C3_MissingColumnStops ==
    \A p \in 1..Len(parsed) :
        ~({"EcoCyc", "HMDB"} \subseteq parsed[p].columns) =>
            /\ p = Len(parsed)
            /\ tabs[s + 1] = parsed[p].name
            /\ pc = "failed"
            /\ error = "AssertionError"
            /\ i = 0
            /\ \A k \in 1..Len(lookups) : lookups[k].sheet # s + 1
            /\ \A n \in DOMAIN fdict : \A k \in 1..Len(fdict[n]) :
                   fdict[n][k][1] # parsed[p].name
            /\ files = <<>>

\* the run failed on the second sheet parsed, which lacks a column, after
\* lookups were made for the first
C3_Witness ==
    /\ Len(parsed) = 2
    /\ ~({"EcoCyc", "HMDB"} \subseteq parsed[2].columns)
    /\ error = "AssertionError"
    /\ lookups # <<>>

\* C4: the EcoCyc requests made for a row are the row's EcoCyc identifiers,
\* one request each, in order, up to the first failing answer; a failing
\* answer is the last lookup of the run, which ends there with the error,
\* at that row, with no workbook written; and workbooks are written only
\* when every sheet that is not skipped has been processed.
C4_OneRequestAndFailFast ==
    /\ ListsOfRow =>
        LET reqs == SelectSeq(LookupsOfRow, LAMBDA l : l.db = ecocyc)
            asked == [k \in 1..Len(reqs) |-> reqs[k].mid]
        IN  IF Len(emids) > 0 /\ Len(hmids) > 0
            THEN /\ IsPrefix(asked, emids)
                 /\ error # "HTTPError" => asked = emids
            ELSE asked = <<>>
    /\ \A k \in 1..Len(lookups) :
        lookups[k].status_code >= 400 =>
            /\ k = Len(lookups)
            /\ pc = "failed"
            /\ error = "HTTPError"
            /\ lookups[k].sheet = s + 1
            /\ lookups[k].row = i
            /\ \A n \in DOMAIN fdict : Len(fdict[n]) < Len(parsed)
            /\ files = <<>>
    /\ files # <<>> =>
        /\ pc = "done"
        /\ s = Len(tabs)
        /\ [k \in 1..Len(parsed) |-> parsed[k].name] = NotSkipped
        /\ \A n \in DOMAIN fdict : Len(fdict[n]) = Len(NotSkipped)

\* the second request of a row was answered with a failing status
C4_Witness ==
    /\ error = "HTTPError"
    /\ Len(LookupsOfRow) = 2
    /\ LookupsOfRow[1].status_code = 200
    /\ LookupsOfRow[2].status_code = 500
    /\ emids = <<"m1", "m2">>

\* C5: retrieve and getdict_ambiguousinfo accept the tags ecocyc and hmdb
\* and no other: with another tag retrieve fails its assertion having made
\* no lookup, and getdict_ambiguousinfo fails its assertion leaving the
\* dataframe's columns as they were.
C5_OnlyTwoTags ==
    ret # Pending =>
        IF call.db \in {ecocyc, hmdb}
        THEN ret.exc # "AssertionError"
        ELSE /\ ret.exc = "AssertionError"
             /\ call.fn = "retrieve" => ret.looked = <<>>
             /\ call.fn = "getdict_ambiguousinfo" => ret.ambig_df = call.ambig_df

\* retrieve was called with two identifiers and a tag that is no database's
C5_Witness ==
    /\ call.fn = "retrieve"
    /\ call.db = 2
    /\ Len(call.mids) = 2
    /\ ret.exc = "AssertionError"

\* the tokens of a cell that getlists is to keep
Kept(cell) == SelectSeq(split(str(cell)), ValidMid)

\* C6: for a row with both cells, getlists returns the EcoCyc list and the
\* HMDB list, each the cell's pieces that are no invalid marker and not all
\* digits, in order.
C6_GetlistsKeepsValidTokens ==
    (ret # Pending /\ call.fn = "getlists" /\ HasDbKeys(call.excelrow)) =>
        /\ ret.exc = "none"
        /\ ret.EcoCyc = Kept(call.excelrow["EcoCyc"])
        /\ ret.HMDB = Kept(call.excelrow["HMDB"])

\* the identifiers of ids that their own database resolves to a full record
ResolvedIn(ids, db) ==
    { k \in 1..Len(ids) :
        IF db = ecocyc THEN biocyc[ids[k]].smiles # None
        ELSE ids[k] \in DOMAIN hmdbroot }

\* the row the loop is at met no failing answer
NoFailingAnswer == \A k \in 1..Len(LookupsOfRow) : LookupsOfRow[k].status_code < 400

\* C7: a row with exactly one empty list has the other list looked up in
\* its own database, and is appended to simple with that database's tag
\* when exactly one identifier resolves, and to ambiguous otherwise.
C7_SingleDatabaseRowFiled ==
    (ListsOfRow /\ NoFailingAnswer /\ (Len(emids) = 0) # (Len(hmids) = 0)) =>
        LET db == IF Len(emids) = 0 THEN hmdb ELSE ecocyc
            ids == IF Len(emids) = 0 THEN hmids ELSE emids
            name == RowNames[i + 1]
        IN  /\ [k \in 1..Len(LookupsOfRow) |-> LookupsOfRow[k].mid] = ids
            /\ \A k \in 1..Len(LookupsOfRow) : LookupsOfRow[k].db = db
            /\ IF Cardinality(ResolvedIn(ids, db)) = 1
               THEN \E k \in RowsNamed(simple_df, name) : simple_df[k]["Database"] = db
               ELSE RowsNamed(ambiguous_df, name) # {}

\* the InChIKeys shared by the records the two lists resolve to
SharedKeys ==
    { biocyc[emids[k]].inchikey : k \in ResolvedIn(emids, ecocyc) }
    \cap { hmdbroot[hmids[k]].inchikey : k \in ResolvedIn(hmids, hmdb) }

\* C8: a row with two non-empty lists is appended to ambiguous in any case,
\* and also to match when one InChIKey is shared, to multimatch when more
\* are, to neither when none is; the appended rows carry the row's Name.
C8_BothDatabasesRowFiled ==
    (ListsOfRow /\ NoFailingAnswer /\ Len(emids) > 0 /\ Len(hmids) > 0) =>
        LET name == RowNames[i + 1]
        IN  /\ RowsNamed(ambiguous_df, name) # {}
            /\ RowsNamed(match_df, name) # {} <=> Cardinality(SharedKeys) = 1
            /\ RowsNamed(multimatch_df, name) # {} <=> Cardinality(SharedKeys) > 1

====
